---- MODULE Spec2Model ----
(***************************************************************************)
(* Availability tracking of service professionals: the booking, calendar   *)
(* entry and availability services of src/project, each service one       *)
(* action over the rows of the Booking, CalendarEntry, Availability and    *)
(* Professional tables.                                                    *)
(***************************************************************************)
EXTENDS Integers, Sequences, FiniteSets, TLC

\* ------------------------------------------------------------------ bounds
MaxTime == 3
MaxBookings == 2
MaxAvail == 2
MaxEntries == 1
\* Rows the Booking and Availability tables hold together.
MaxRows == 2
\* Calls the server has in flight at once.
MaxCalls == 2

\* --------------------------------------------------------------- constants
\* Optional[datetime] = None (a NULL column); never a member of Times.
None == -1

Times == 0..MaxTime
OptTimes == Times \cup {None}

\* Rows of the Professional table; "px" is an id with no row.
Professionals == {"p1", "p2"}
ProfIds == Professionals \cup {"px"}

BookingStatus == {"PENDING", "CONFIRMED", "CANCELLED", "COMPLETED"}
AvailabilityStatus == {"AVAILABLE", "BUSY", "OFFLINE"}

\* The windows the callers ask for: at most two instants long, starting
\* before the last instant and ending in the last two.  They include one
\* contained in another, two that overlap in part, two that touch, and a
\* zero-length one.
Windows ==
    {w \in Times \X Times :
        /\ w[1] <= w[2]
        /\ w[2] - w[1] <= 2
        /\ w[1] < MaxTime
        /\ w[2] >= MaxTime - 1}
\* The window a calendar event is moved to; endDateTime: Optional[datetime].
EventWindows == {<<0, None>>}

\* The professional ids the callers pass.
CallerIds == {"p1", "px"}

BookingIds == 1..MaxBookings
EntryIds == 1..MaxEntries
CallIds == 1..MaxCalls

VARIABLES
    now,             \* datetime.now()
    bookings,        \* Booking table: sequence of rows, id = index
    entries,         \* CalendarEntry table: id -> row (present or deleted)
    availabilities,  \* Availability table: sequence of rows, id = index
    isAvailable,     \* Professional.isAvailable
    last,            \* history: the last service call and its response
    calls            \* the calls in flight: each one's position and locals

vars == <<now, bookings, entries, availabilities, isAvailable, last, calls>>

\* ---------------------------------------------------------- query filters
\* Prisma's lte / gte filters: a NULL column matches neither.
Lte(x, t) == x # None /\ x <= t
Gte(x, t) == x # None /\ x >= t

NoEntry == [present |-> FALSE, professionalId |-> "px",
            startDateTime |-> 0, endDateTime |-> None]

\* Booking.find_many of updateProfessionalAvailability.
CurrentBookings(bks, p, t) ==
    {i \in DOMAIN bks :
        /\ bks[i].professionalId = p
        /\ Lte(bks[i].scheduledTime, t)
        /\ Gte(bks[i].endTime, t)
        /\ bks[i].status \in {"PENDING", "CONFIRMED"}}

\* CalendarEntry.find_many of updateProfessionalAvailability.
CurrentEntries(ents, p, t) ==
    {i \in DOMAIN ents :
        /\ ents[i].present
        /\ ents[i].professionalId = p
        /\ Lte(ents[i].startDateTime, t)
        /\ Gte(ents[i].endDateTime, t)}

is_busy(bks, ents, p, t) ==
    Cardinality(CurrentBookings(bks, p, t)) > 0
        \/ Cardinality(CurrentEntries(ents, p, t)) > 0

\* Professional.update(data={"isAvailable": not is_busy}).
updateProfessionalAvailability(flags, bks, ents, p, t) ==
    [flags EXCEPT ![p] = ~is_busy(bks, ents, p, t)]

\* A conflict check by interval overlap, in place of the stored bounds.
overlapping_bookings_by_overlap(bks, p, s, e) ==
    {i \in DOMAIN bks :
        /\ bks[i].professionalId = p
        /\ bks[i].scheduledTime # None /\ bks[i].scheduledTime < e
        /\ bks[i].endTime # None /\ s < bks[i].endTime
        /\ bks[i].status = "CONFIRMED"}

\* Booking.find_many of createBooking: the conflict check.
overlapping_bookings(bks, p, s, e) ==
    {i \in DOMAIN bks :
        /\ bks[i].professionalId = p
        /\ Lte(bks[i].scheduledTime, s)
        /\ Gte(bks[i].endTime, e)
        /\ bks[i].status = "CONFIRMED"}

\* Availability rows of a professional, and those a descending timestamp
\* order can put first (rows with equal timestamps come in either order).
RowsOf(avs, p) == {i \in DOMAIN avs : avs[i].professionalId = p}
LatestIds(avs, p) ==
    {i \in RowsOf(avs, p) :
        \A j \in RowsOf(avs, p) : avs[j].timestamp <= avs[i].timestamp}
LatestStatuses(avs, p) == {avs[i].status : i \in LatestIds(avs, p)}

\* A call slot with no call in it.
Idle ==
    [op |-> "none", pc |-> "idle", professionalId |-> "px", status |-> "NONE",
     current_time |-> None, latest |-> "NONE"]

\* -------------------------------------------------------------------- Init
Init ==
    /\ now = 0
    /\ bookings = <<>>
    /\ entries \in [EntryIds ->
            {NoEntry,
             [present |-> TRUE, professionalId |-> "p1",
              startDateTime |-> MaxTime - 1, endDateTime |-> MaxTime - 1]}]
    /\ availabilities = <<>>
    /\ isAvailable = [p \in Professionals |-> TRUE]
    /\ last = [op |-> "init"]
    /\ calls = [c \in CallIds |-> Idle]

\* ----------------------------------------------------------------- actions
Tick ==
    /\ now < MaxTime
    /\ now' = now + 1
    /\ last' = [op |-> "tick"]
    /\ UNCHANGED <<bookings, entries, availabilities, isAvailable, calls>>

RoomForBooking ==
    Len(bookings) < MaxBookings /\ Len(bookings) + Len(availabilities) < MaxRows
RoomForAvailability ==
    Len(availabilities) < MaxAvail /\ Len(bookings) + Len(availabilities) < MaxRows

\* The professional's availability as stored before a call: the flag and the
\* statuses a latest-record query can return.
Snapshot(p) ==
    [isAvailable |-> isAvailable[p],
     latest |-> LatestStatuses(availabilities, p)]
NoSnapshot == [isAvailable |-> FALSE, latest |-> {}]

\* createBooking with a conflict check that marks the professional busy when
\* it finds a conflict.
createBooking_flags_conflict(p, s, e, fault) ==
    LET overridden ==
            IF /\ last.op = "updateAvailability"
               /\ last.successful
               /\ last.professionalId = p
            THEN last.status ELSE "NONE"
        resp(msg, id, snap) ==
            [op |-> "createBooking", professionalId |-> p, message |-> msg,
             bookingId |-> id, before |-> snap, overridden |-> overridden]
    IN
    IF p \notin Professionals THEN
        /\ fault = "none"
        /\ last' = resp("Professional not found.", 0, NoSnapshot)
        /\ UNCHANGED <<now, bookings, entries, availabilities, isAvailable>>
    ELSE IF overlapping_bookings(bookings, p, s, e) # {} THEN
        /\ fault = "none"
        /\ last' = resp("Time slot is not available.", 0, NoSnapshot)
        /\ isAvailable' = [isAvailable EXCEPT ![p] = FALSE]
        /\ UNCHANGED <<now, bookings, entries, availabilities>>
    ELSE
        /\ RoomForBooking
        /\ bookings' = Append(bookings,
                [professionalId |-> p, scheduledTime |-> s, endTime |-> e,
                 status |-> "PENDING"])
        /\ IF fault = "none" THEN
                /\ isAvailable' =
                    updateProfessionalAvailability(isAvailable, bookings', entries, p, now)
                /\ last' = resp("Booking created successfully.", Len(bookings'), Snapshot(p))
           ELSE
                /\ isAvailable' = isAvailable
                /\ last' = resp("error", 0, Snapshot(p))
        /\ UNCHANGED <<now, entries, availabilities>>

\* createBooking inside a transaction: a failed recompute also undoes
\* Booking.create.
createBooking_rolls_back(p, s, e, fault) ==
    LET overridden ==
            IF /\ last.op = "updateAvailability"
               /\ last.successful
               /\ last.professionalId = p
            THEN last.status ELSE "NONE"
        resp(msg, id, snap) ==
            [op |-> "createBooking", professionalId |-> p, message |-> msg,
             bookingId |-> id, before |-> snap, overridden |-> overridden]
    IN
    IF p \notin Professionals THEN
        /\ fault = "none"
        /\ last' = resp("Professional not found.", 0, NoSnapshot)
        /\ UNCHANGED <<now, bookings, entries, availabilities, isAvailable>>
    ELSE IF overlapping_bookings(bookings, p, s, e) # {} THEN
        /\ fault = "none"
        /\ last' = resp("Time slot is not available.", 0, NoSnapshot)
        /\ UNCHANGED <<now, bookings, entries, availabilities, isAvailable>>
    ELSE
        /\ RoomForBooking
        /\ IF fault = "none" THEN
                /\ bookings' = Append(bookings,
                        [professionalId |-> p, scheduledTime |-> s, endTime |-> e,
                         status |-> "PENDING"])
                /\ isAvailable' =
                    updateProfessionalAvailability(isAvailable, bookings', entries, p, now)
                /\ last' = resp("Booking created successfully.", Len(bookings'), Snapshot(p))
           ELSE
                /\ bookings' = bookings
                /\ isAvailable' = isAvailable
                /\ last' = resp("error", 0, Snapshot(p))
        /\ UNCHANGED <<now, entries, availabilities>>

\* createBooking(professionalId, userId, scheduledTime, endTime, serviceType).
\* fault = "recompute": the store fails inside updateProfessionalAvailability,
\* after Booking.create; the except clause turns it into a response.
\* The response also records, as history, the availability stored before the
\* call and the manual override the call just before set, if it set one.
createBooking(p, s, e, fault) ==
    LET overridden ==
            IF /\ last.op = "updateAvailability"
               /\ last.successful
               /\ last.professionalId = p
            THEN last.status ELSE "NONE"
        resp(msg, id, snap) ==
            [op |-> "createBooking", professionalId |-> p, message |-> msg,
             bookingId |-> id, before |-> snap, overridden |-> overridden]
    IN
    IF p \notin Professionals THEN
        /\ fault = "none"
        /\ last' = resp("Professional not found.", 0, NoSnapshot)
        /\ UNCHANGED <<now, bookings, entries, availabilities, isAvailable>>
    ELSE IF overlapping_bookings(bookings, p, s, e) # {} THEN
        /\ fault = "none"
        /\ last' = resp("Time slot is not available.", 0, NoSnapshot)
        /\ UNCHANGED <<now, bookings, entries, availabilities, isAvailable>>
    ELSE
        /\ RoomForBooking
        /\ bookings' = Append(bookings,
                [professionalId |-> p, scheduledTime |-> s, endTime |-> e,
                 status |-> "PENDING"])
        /\ IF fault = "none" THEN
                /\ isAvailable' =
                    updateProfessionalAvailability(isAvailable, bookings', entries, p, now)
                /\ last' = resp("Booking created successfully.", Len(bookings'), Snapshot(p))
           ELSE
                /\ isAvailable' = isAvailable
                /\ last' = resp("error", 0, Snapshot(p))
        /\ UNCHANGED <<now, entries, availabilities>>

\* updateBooking(bookingId, scheduledTime, endTime, status, comments).
updateBooking(id, s, e, st) ==
    IF id \notin DOMAIN bookings THEN
        /\ last' = [op |-> "updateBooking", bookingId |-> id, raised |-> TRUE]
        /\ UNCHANGED <<now, bookings, entries, availabilities, isAvailable>>
    ELSE
        /\ bookings' = [bookings EXCEPT ![id] =
                [@ EXCEPT !.scheduledTime = s, !.endTime = e, !.status = st]]
        /\ last' = [op |-> "updateBooking", bookingId |-> id, raised |-> FALSE]
        /\ UNCHANGED <<now, entries, availabilities, isAvailable>>

\* An update_many filter that leaves out the professional.
CancelledWindowRows_of_anyone(avs, b) ==
    {i \in DOMAIN avs :
        /\ Gte(avs[i].timestamp, b.scheduledTime)
        /\ Lte(avs[i].timestamp,
               IF b.endTime # None THEN b.endTime ELSE b.scheduledTime)}

\* Availability.update_many of deleteBooking: the rows it matches.
CancelledWindowRows(avs, b) ==
    {i \in DOMAIN avs :
        /\ avs[i].professionalId = b.professionalId
        /\ Gte(avs[i].timestamp, b.scheduledTime)
        /\ Lte(avs[i].timestamp,
               IF b.endTime # None THEN b.endTime ELSE b.scheduledTime)}

\* deleteBooking that frees the schedule of the window again for a booking
\* that is already cancelled.
deleteBooking_frees_again(id) ==
    LET resp(ok, msg, p, sole, fresh, snap) ==
            [op |-> "deleteBooking", bookingId |-> id, success |-> ok,
             message |-> msg, professionalId |-> p, soleReason |-> sole,
             justCreated |-> fresh, before |-> snap]
    IN
    IF id \notin DOMAIN bookings THEN
        /\ last' = resp(FALSE, "Booking not found.", "px", FALSE, FALSE, NoSnapshot)
        /\ UNCHANGED <<now, bookings, entries, availabilities, isAvailable>>
    ELSE IF bookings[id].status = "CANCELLED" THEN
        /\ last' = resp(FALSE, "Booking already cancelled.",
                        bookings[id].professionalId, FALSE, FALSE, NoSnapshot)
        /\ availabilities' =
                [i \in DOMAIN availabilities |->
                    IF i \in CancelledWindowRows(availabilities, bookings[id])
                    THEN [availabilities[i] EXCEPT !.status = "AVAILABLE"]
                    ELSE availabilities[i]]
        /\ UNCHANGED <<now, bookings, entries, isAvailable>>
    ELSE
        LET b == bookings[id]
            p == b.professionalId
            rows == CancelledWindowRows(availabilities, b)
            sole == /\ ~isAvailable[p]
                    /\ CurrentBookings(bookings, p, now) = {id}
                    /\ CurrentEntries(entries, p, now) = {}
            fresh == /\ last.op = "createBooking"
                     /\ last.bookingId = id
        IN
        /\ bookings' = [bookings EXCEPT ![id].status = "CANCELLED"]
        /\ availabilities' =
                [i \in DOMAIN availabilities |->
                    IF i \in rows
                    THEN [availabilities[i] EXCEPT !.status = "AVAILABLE"]
                    ELSE availabilities[i]]
        /\ last' = resp(TRUE,
                        IF Cardinality(rows) > 0
                        THEN "Booking cancelled successfully and professional's schedule updated."
                        ELSE "Booking status was updated to cancelled, but schedule update failed.",
                        p, sole, fresh,
                        IF fresh THEN last.before ELSE NoSnapshot)
        /\ UNCHANGED <<now, entries, isAvailable>>

\* deleteBooking(bookingId).  The response also records, as history, whether
\* the cancelled booking was the only reason the professional was busy, and
\* the availability stored before the booking when it was created by the
\* call just before.
deleteBooking(id) ==
    LET resp(ok, msg, p, sole, fresh, snap) ==
            [op |-> "deleteBooking", bookingId |-> id, success |-> ok,
             message |-> msg, professionalId |-> p, soleReason |-> sole,
             justCreated |-> fresh, before |-> snap]
    IN
    IF id \notin DOMAIN bookings THEN
        /\ last' = resp(FALSE, "Booking not found.", "px", FALSE, FALSE, NoSnapshot)
        /\ UNCHANGED <<now, bookings, entries, availabilities, isAvailable>>
    ELSE IF bookings[id].status = "CANCELLED" THEN
        /\ last' = resp(FALSE, "Booking already cancelled.",
                        bookings[id].professionalId, FALSE, FALSE, NoSnapshot)
        /\ UNCHANGED <<now, bookings, entries, availabilities, isAvailable>>
    ELSE
        LET b == bookings[id]
            p == b.professionalId
            rows == CancelledWindowRows(availabilities, b)
            sole == /\ ~isAvailable[p]
                    /\ CurrentBookings(bookings, p, now) = {id}
                    /\ CurrentEntries(entries, p, now) = {}
            fresh == /\ last.op = "createBooking"
                     /\ last.bookingId = id
        IN
        /\ bookings' = [bookings EXCEPT ![id].status = "CANCELLED"]
        /\ availabilities' =
                [i \in DOMAIN availabilities |->
                    IF i \in rows
                    THEN [availabilities[i] EXCEPT !.status = "AVAILABLE"]
                    ELSE availabilities[i]]
        /\ last' = resp(TRUE,
                        IF Cardinality(rows) > 0
                        THEN "Booking cancelled successfully and professional's schedule updated."
                        ELSE "Booking status was updated to cancelled, but schedule update failed.",
                        p, sole, fresh,
                        IF fresh THEN last.before ELSE NoSnapshot)
        /\ UNCHANGED <<now, entries, isAvailable>>

\* updateAvailability(professionalId, status): the manual override.
updateAvailability(p, st) ==
    IF p \notin Professionals THEN
        /\ last' = [op |-> "updateAvailability", professionalId |-> p,
                    successful |-> FALSE, status |-> st]
        /\ UNCHANGED <<now, bookings, entries, availabilities, isAvailable>>
    ELSE
        /\ RoomForAvailability
        /\ availabilities' = Append(availabilities,
                [professionalId |-> p, status |-> st, timestamp |-> now])
        /\ last' = [op |-> "updateAvailability", professionalId |-> p,
                    successful |-> TRUE, status |-> st]
        /\ UNCHANGED <<now, bookings, entries, isAvailable>>

\* The bookings argument of syncAvailability: the caller's list, here empty
\* or one booking over the whole horizon.
SyncBookingLists ==
    {<<>>} \cup
    {<<[scheduledTime |-> 0, endTime |-> MaxTime, status |-> st]>> :
        st \in {"PENDING", "CONFIRMED"}}

\* is_busy of syncAvailability.
sync_is_busy(bl, t) ==
    \E k \in DOMAIN bl :
        /\ bl[k].status = "CONFIRMED"
        /\ bl[k].scheduledTime <= t
        /\ t <= (IF bl[k].endTime # None THEN bl[k].endTime ELSE t)

new_status(st, bl, t) == IF sync_is_busy(bl, t) THEN "BUSY" ELSE st

\* syncAvailability(professionalId, availabilityStatus, bookings).
\* Availability.upsert is called without its data argument (the source marks
\* the call): with upsertRuns it acts as its create / update arguments say,
\* on any one row of the professional (professionalId is not a unique key);
\* without, the call raises before it reaches the store.  A create for an id
\* with no Professional row violates the relation and raises.
syncAvailability(p, st, bl, upsertRuns) ==
    LET ns == new_status(st, bl, now)
        resp(raised, status, ts) ==
            [op |-> "syncAvailability", professionalId |-> p, raised |-> raised,
             status |-> status, timestamp |-> ts]
        row == [professionalId |-> p, status |-> ns, timestamp |-> now]
    IN
    \/ \E l \in LatestIds(availabilities, p) :
        IF availabilities[l].status = ns THEN
            /\ upsertRuns
            /\ last' = resp(FALSE, availabilities[l].status, availabilities[l].timestamp)
            /\ UNCHANGED <<now, bookings, entries, availabilities, isAvailable>>
        ELSE IF upsertRuns THEN
            /\ \E u \in RowsOf(availabilities, p) :
                    availabilities' = [availabilities EXCEPT ![u] = row]
            /\ last' = resp(FALSE, ns, now)
            /\ UNCHANGED <<now, bookings, entries, isAvailable>>
        ELSE
            /\ last' = resp(TRUE, "NONE", None)
            /\ UNCHANGED <<now, bookings, entries, availabilities, isAvailable>>
    \/ /\ LatestIds(availabilities, p) = {}
       /\ IF upsertRuns /\ p \in Professionals THEN
            /\ RoomForAvailability
            /\ availabilities' = Append(availabilities, row)
            /\ last' = resp(FALSE, ns, now)
            /\ UNCHANGED <<now, bookings, entries, isAvailable>>
          ELSE
            /\ last' = resp(TRUE, "NONE", None)
            /\ UNCHANGED <<now, bookings, entries, availabilities, isAvailable>>

\* getAvailability(professionalId, dateRange = None): the entry of the
\* response for the professional, built from the first row in descending
\* timestamp order, or no entry when the professional has no row.
getAvailability(p) ==
    LET afterCancel ==
            /\ last.op = "deleteBooking"
            /\ last.success
            /\ last.soleReason
            /\ last.professionalId = p
        resp(found, flag, status, next) ==
            [op |-> "getAvailability", professionalId |-> p, found |-> found,
             isAvailable |-> flag, currentStatus |-> status,
             nextAvailableTime |-> next, afterCancel |-> afterCancel]
    IN
    /\ \/ \E l \in LatestIds(availabilities, p) :
            last' = resp(TRUE, isAvailable[p], availabilities[l].status,
                         IF availabilities[l].status # "AVAILABLE"
                         THEN availabilities[l].timestamp ELSE None)
       \/ /\ LatestIds(availabilities, p) = {}
          /\ last' = resp(FALSE, FALSE, "NONE", None)
    /\ UNCHANGED <<now, bookings, entries, availabilities, isAvailable>>

\* updateExternalCalendarEvent(eventId, startDateTime, endDateTime, title,
\* description).
updateExternalCalendarEvent(id, s, e) ==
    IF ~entries[id].present THEN
        /\ last' = [op |-> "updateExternalCalendarEvent", eventId |-> id,
                    success |-> FALSE]
        /\ UNCHANGED <<now, bookings, entries, availabilities, isAvailable>>
    ELSE
        /\ entries' = [entries EXCEPT ![id] =
                [@ EXCEPT !.startDateTime = s, !.endDateTime = e]]
        /\ last' = [op |-> "updateExternalCalendarEvent", eventId |-> id,
                    success |-> TRUE]
        /\ UNCHANGED <<now, bookings, availabilities, isAvailable>>

\* deleteExternalCalendarEvent(eventId).
deleteExternalCalendarEvent(id) ==
    IF ~entries[id].present THEN
        /\ last' = [op |-> "deleteExternalCalendarEvent", eventId |-> id,
                    professionalId |-> "px", success |-> FALSE]
        /\ UNCHANGED <<now, bookings, entries, availabilities, isAvailable>>
    ELSE
        /\ RoomForAvailability
        /\ entries' = [entries EXCEPT ![id] = NoEntry]
        /\ availabilities' = Append(availabilities,
                [professionalId |-> entries[id].professionalId,
                 status |-> "AVAILABLE", timestamp |-> now])
        /\ last' = [op |-> "deleteExternalCalendarEvent", eventId |-> id,
                    professionalId |-> entries[id].professionalId, success |-> TRUE]
        /\ UNCHANGED <<now, bookings, isAvailable>>

\* ------------------------------------------------------------ specification
CreateBooking ==
    \E p \in CallerIds, w \in Windows, fault \in {"none", "recompute"} :
        createBooking(p, w[1], w[2], fault) /\ UNCHANGED calls
UpdateBooking ==
    \E id \in BookingIds, w \in Windows, st \in BookingStatus :
        /\ IF id \in DOMAIN bookings
           THEN \/ st = bookings[id].status
                \/ w = <<bookings[id].scheduledTime, bookings[id].endTime>>
           ELSE w = <<0, MaxTime - 1>> /\ st = "CONFIRMED"
        /\ updateBooking(id, w[1], w[2], st)
        /\ UNCHANGED calls
DeleteBooking == \E id \in BookingIds : deleteBooking(id) /\ UNCHANGED calls
UpdateAvailability ==
    \E p \in CallerIds, st \in AvailabilityStatus :
        /\ p \notin Professionals => st = "OFFLINE"
        /\ updateAvailability(p, st)
        /\ UNCHANGED calls
SyncAvailability ==
    \E p \in CallerIds, st \in AvailabilityStatus, bl \in SyncBookingLists,
       upsertRuns \in BOOLEAN :
        /\ bl # <<>> => st = "AVAILABLE"
        /\ syncAvailability(p, st, bl, upsertRuns)
        /\ UNCHANGED calls
GetAvailability == \E p \in CallerIds : getAvailability(p) /\ UNCHANGED calls
UpdateExternalCalendarEvent ==
    \E id \in EntryIds, w \in EventWindows :
        updateExternalCalendarEvent(id, w[1], w[2]) /\ UNCHANGED calls
DeleteExternalCalendarEvent ==
    \E id \in EntryIds : deleteExternalCalendarEvent(id) /\ UNCHANGED calls

Next ==
    \/ Tick
    \/ CreateBooking
    \/ UpdateBooking
    \/ DeleteBooking
    \/ UpdateAvailability
    \/ SyncAvailability
    \/ GetAvailability
    \/ UpdateExternalCalendarEvent
    \/ DeleteExternalCalendarEvent

Spec == Init /\ [][Next]_vars

\* ------------------------------------------------- calls that interleave
\* updateAvailability and syncAvailability step by step: the server runs
\* each call as a coroutine that gives way to the other calls at every
\* await, and the store applies a write some time after the call built it.
\* The statuses the concurrent callers pass.
ConcurrentStatuses == {"AVAILABLE", "BUSY"}

Step(c, call) ==
    /\ calls' = [calls EXCEPT ![c] = call]
    /\ last' = [op |-> "step"]

\* updateAvailability: Professional.find_unique.
updateAvailability_find_unique(c, p, st) ==
    /\ calls[c].pc = "idle"
    /\ Step(c, [Idle EXCEPT !.op = "updateAvailability", !.professionalId = p,
                            !.status = st,
                            !.pc = IF p \in Professionals THEN "data" ELSE "done"])
    /\ UNCHANGED <<now, bookings, entries, availabilities, isAvailable>>

\* updateAvailability: the data of Availability.create, with its timestamp
\* datetime.now().
updateAvailability_data(c) ==
    /\ calls[c].op = "updateAvailability"
    /\ calls[c].pc = "data"
    /\ Step(c, [calls[c] EXCEPT !.current_time = now, !.pc = "create"])
    /\ UNCHANGED <<now, bookings, entries, availabilities, isAvailable>>

\* updateAvailability: the store applies Availability.create.
updateAvailability_create(c) ==
    /\ calls[c].op = "updateAvailability"
    /\ calls[c].pc = "create"
    /\ RoomForAvailability
    /\ availabilities' = Append(availabilities,
            [professionalId |-> calls[c].professionalId,
             status |-> calls[c].status,
             timestamp |-> calls[c].current_time])
    /\ Step(c, [calls[c] EXCEPT !.pc = "done"])
    /\ UNCHANGED <<now, bookings, entries, isAvailable>>

\* syncAvailability: current_time = datetime.now().
syncAvailability_current_time(c, p, st) ==
    /\ calls[c].pc = "idle"
    /\ Step(c, [Idle EXCEPT !.op = "syncAvailability", !.professionalId = p,
                            !.status = st, !.current_time = now,
                            !.pc = "find_first"])
    /\ UNCHANGED <<now, bookings, entries, availabilities, isAvailable>>

\* syncAvailability: Availability.find_first, the latest record's status.
syncAvailability_find_first(c) ==
    /\ calls[c].op = "syncAvailability"
    /\ calls[c].pc = "find_first"
    /\ \E st \in IF LatestIds(availabilities, calls[c].professionalId) = {}
                 THEN {"NONE"}
                 ELSE LatestStatuses(availabilities, calls[c].professionalId) :
            Step(c, [calls[c] EXCEPT !.latest = st, !.pc = "upsert"])
    /\ UNCHANGED <<now, bookings, entries, availabilities, isAvailable>>

\* syncAvailability with an empty bookings list: the comparison with the
\* latest record and Availability.upsert, which updates a row of the
\* professional when there is one and creates a row otherwise.
syncAvailability_upsert(c, upsertRuns) ==
    LET p == calls[c].professionalId
        ns == new_status(calls[c].status, <<>>, calls[c].current_time)
        row == [professionalId |-> p, status |-> ns,
                timestamp |-> calls[c].current_time]
    IN
    /\ calls[c].op = "syncAvailability"
    /\ calls[c].pc = "upsert"
    /\ Step(c, [calls[c] EXCEPT !.pc = "done"])
    /\ IF calls[c].latest = ns \/ ~upsertRuns THEN
            availabilities' = availabilities
       ELSE IF RowsOf(availabilities, p) # {} THEN
            \E u \in RowsOf(availabilities, p) :
                availabilities' = [availabilities EXCEPT ![u] = row]
       ELSE IF p \in Professionals /\ RoomForAvailability THEN
            availabilities' = Append(availabilities, row)
       ELSE
            availabilities' = availabilities
    /\ UNCHANGED <<now, bookings, entries, isAvailable>>

NextConcurrent ==
    \/ Tick
    \/ \E c \in CallIds, p \in CallerIds, st \in ConcurrentStatuses :
            updateAvailability_find_unique(c, p, st)
    \/ \E c \in CallIds : updateAvailability_data(c)
    \/ \E c \in CallIds : updateAvailability_create(c)
    \/ \E c \in CallIds, p \in CallerIds, st \in ConcurrentStatuses :
            syncAvailability_current_time(c, p, st)
    \/ \E c \in CallIds : syncAvailability_find_first(c)
    \/ \E c \in CallIds, upsertRuns \in BOOLEAN : syncAvailability_upsert(c, upsertRuns)

SpecConcurrent == Init /\ [][NextConcurrent]_vars

\* ------------------------------------------------------ two professionals
\* Calls for both professionals, each with one window and the statuses a
\* caller sets by hand.
TwoWindows == {<<0, MaxTime - 1>>}
TwoStatuses == {"BUSY", "OFFLINE"}

InitTwo ==
    /\ now = 0
    /\ bookings = <<>>
    /\ entries \in [EntryIds ->
            {[present |-> TRUE, professionalId |-> p,
              startDateTime |-> 0, endDateTime |-> MaxTime - 1] :
                p \in Professionals}]
    /\ availabilities = <<>>
    /\ isAvailable = [p \in Professionals |-> TRUE]
    /\ last = [op |-> "init"]
    /\ calls = [c \in CallIds |-> Idle]

NextTwo ==
    \/ Tick
    \/ \E p \in Professionals, w \in TwoWindows :
            createBooking(p, w[1], w[2], "none") /\ UNCHANGED calls
    \/ DeleteBooking
    \/ \E p \in Professionals, st \in TwoStatuses :
            updateAvailability(p, st) /\ UNCHANGED calls
    \/ \E p \in Professionals, upsertRuns \in BOOLEAN :
            syncAvailability(p, "AVAILABLE", <<>>, upsertRuns) /\ UNCHANGED calls
    \/ DeleteExternalCalendarEvent

SpecTwo == InitTwo /\ [][NextTwo]_vars

\* ------------------------------------------------- a professional left alone
\* One booking is created for professional "p1"; after it only time passes
\* and clients read the availability.
BookOnce ==
    /\ bookings = <<>>
    /\ \E w \in Windows : createBooking("p1", w[1], w[2], "none")
    /\ UNCHANGED calls

NextIdle ==
    \/ Tick
    \/ BookOnce
    \/ GetAvailability

\* Time goes on, and clients keep asking.
SpecIdle ==
    Init /\ [][NextIdle]_vars /\ WF_vars(Tick) /\ WF_vars(GetAvailability)

\* ------------------------------------------------------------------ claims
SlotUnavailable == "Time slot is not available."
Created == "Booking created successfully."

\* The CONFIRMED bookings of professional p.
Confirmed(p) ==
    {i \in DOMAIN bookings :
        bookings[i].professionalId = p /\ bookings[i].status = "CONFIRMED"}

\* C1: createBooking answers "Time slot is not available." for a candidate
\* window [cs, ce) of an existing professional if and only if that
\* professional has a CONFIRMED booking with start <= cs and end >= ce.  So a
\* candidate inside a CONFIRMED booking is rejected, and a candidate of
\* positive length that starts exactly where the professional's CONFIRMED
\* bookings end is accepted.
C1_ConflictIffContained ==
    [][last'.op = "createBooking" =>
       \A p \in Professionals, w \in Windows :
        createBooking(p, w[1], w[2], "none") =>
            /\ last'.message = SlotUnavailable <=>
                \E i \in Confirmed(p) :
                    /\ bookings[i].scheduledTime <= w[1]
                    /\ bookings[i].endTime # None
                    /\ bookings[i].endTime >= w[2]
            /\ (/\ w[1] < w[2]
                /\ \A i \in Confirmed(p) : bookings[i].endTime = w[1])
               => last'.message = Created]_vars

\* C1 witness: a call was answered with the conflict, and the table holds a
\* CONFIRMED booking of that professional.
C1_Witness ==
    /\ last.op = "createBooking"
    /\ last.message = SlotUnavailable
    /\ Confirmed(last.professionalId) # {}

\* Two windows overlap iff a.start < b.end and b.start < a.end (spec.md 3).
overlaps(s1, e1, s2, e2) == s1 < e2 /\ s2 < e1
\* A window contains an instant iff start <= instant < end (spec.md 4.1).
contains(s, e, t) == s # None /\ e # None /\ s <= t /\ t < e

\* C2: the conflict check fails with SlotUnavailable whenever the candidate
\* window overlaps a CONFIRMED booking of the same professional, partial
\* overlaps included (both windows of positive length).
C2_OverlapIsRejected ==
    [][last'.op = "createBooking" =>
       \A p \in Professionals, w \in Windows :
        (/\ createBooking(p, w[1], w[2], "none")
         /\ w[1] < w[2]
         /\ \E i \in Confirmed(p) :
                /\ bookings[i].scheduledTime < bookings[i].endTime
                /\ overlaps(bookings[i].scheduledTime, bookings[i].endTime, w[1], w[2]))
        => last'.message = SlotUnavailable]_vars

\* C3: no two CONFIRMED bookings of one professional overlap (windows of
\* positive length).
C3_NoOverlappingConfirmed ==
    \A p \in Professionals : \A i, j \in Confirmed(p) :
        (/\ i # j
         /\ bookings[i].scheduledTime < bookings[i].endTime
         /\ bookings[j].scheduledTime < bookings[j].endTime)
        => ~overlaps(bookings[i].scheduledTime, bookings[i].endTime,
                     bookings[j].scheduledTime, bookings[j].endTime)

\* A PENDING or CONFIRMED booking, or a calendar entry, of professional p
\* whose window contains instant t.
ActiveBooking(bks, p, t) ==
    \E i \in DOMAIN bks :
        /\ bks[i].professionalId = p
        /\ bks[i].status \in {"PENDING", "CONFIRMED"}
        /\ contains(bks[i].scheduledTime, bks[i].endTime, t)
ActiveEntry(ents, p, t) ==
    \E i \in DOMAIN ents :
        /\ ents[i].present
        /\ ents[i].professionalId = p
        /\ contains(ents[i].startDateTime, ents[i].endDateTime, t)

\* C4: whenever the resolver runs for a professional (the recompute inside
\* createBooking, or syncAvailability) while an active booking or a calendar
\* entry of that professional contains the instant, it resolves BUSY.
C4_ActiveFactResolvesBusy ==
    LET p == last.professionalId
        active == ActiveBooking(bookings, p, now) \/ ActiveEntry(entries, p, now)
    IN
    /\ (last.op = "createBooking" /\ last.message = Created /\ active)
            => ~isAvailable[p]
    /\ (last.op = "syncAvailability" /\ ~last.raised /\ active)
            => last.status = "BUSY"

\* C5: in every resolution path a booking whose window contains the instant
\* makes the professional BUSY exactly when it is PENDING or CONFIRMED: in
\* the recompute of createBooking over the stored bookings, in
\* syncAvailability over the bookings it is given.
C5_PendingAndConfirmedMakeBusy ==
    [][/\ (last'.op = "createBooking" /\ last'.message = Created) =>
            LET p == last'.professionalId IN
            /\ ActiveBooking(bookings', p, now) => ~isAvailable'[p]
            /\ (/\ CurrentEntries(entries, p, now) = {}
                /\ \A i \in DOMAIN bookings' :
                        (/\ bookings'[i].professionalId = p
                         /\ bookings'[i].scheduledTime <= now
                         /\ now <= bookings'[i].endTime)
                        => bookings'[i].status \in {"CANCELLED", "COMPLETED"})
               => isAvailable'[p]
       /\ last'.op = "syncAvailability" =>
            \A p \in CallerIds, st \in AvailabilityStatus,
               bl \in SyncBookingLists, u \in BOOLEAN :
                (/\ syncAvailability(p, st, bl, u)
                 /\ ~last'.raised
                 /\ \E k \in DOMAIN bl :
                        /\ bl[k].status \in {"PENDING", "CONFIRMED"}
                        /\ contains(bl[k].scheduledTime, bl[k].endTime, now))
                => last'.status = "BUSY"]_vars

\* C6: while a PENDING or CONFIRMED booking or a calendar entry of the
\* professional contains the current instant, setting a manual override
\* (AVAILABLE or OFFLINE) leaves the professional's current resolved status,
\* the status of its latest availability record, BUSY.
C6_OverrideBelowActiveFacts ==
    LET p == last.professionalId IN
    (/\ last.op = "updateAvailability"
     /\ last.successful
     /\ last.status \in {"AVAILABLE", "OFFLINE"}
     /\ ActiveBooking(bookings, p, now) \/ ActiveEntry(entries, p, now))
    => LatestStatuses(availabilities, p) = {"BUSY"}

\* No booking and no calendar entry of p has t within its bounds, ends
\* included.
NothingAt(bks, ents, p, t) ==
    /\ \A i \in DOMAIN bks :
            bks[i].professionalId = p =>
                ~(bks[i].scheduledTime <= t /\ t <= bks[i].endTime)
    /\ \A i \in DOMAIN ents :
            (ents[i].present /\ ents[i].professionalId = p) =>
                ~(ents[i].startDateTime <= t
                    /\ (ents[i].endDateTime = None \/ t <= ents[i].endDateTime))

\* C7: when no booking and no calendar entry of the professional contains
\* the instant, the resolver yields the status of the manual override in
\* effect (OFFLINE stays OFFLINE): after an override is set and the recompute
\* of createBooking runs next, the professional is available only if the
\* override said AVAILABLE.
C7_OverrideIsTheFallback ==
    LET p == last.professionalId IN
    (/\ last.op = "createBooking"
     /\ last.message = Created
     /\ last.overridden \in {"AVAILABLE", "OFFLINE"}
     /\ NothingAt(bookings, entries, p, now))
    => (isAvailable[p] <=> last.overridden = "AVAILABLE")

\* C8: for a professional with no bookings, no calendar entries and no
\* manual override (no availability record at all), resolving availability
\* yields status AVAILABLE with the next change unset.
C8_NoFactsResolvesAvailable ==
    LET p == last.professionalId IN
    (/\ last.op = "getAvailability"
     /\ p \in Professionals
     /\ \A i \in DOMAIN bookings : bookings[i].professionalId # p
     /\ \A i \in DOMAIN entries :
            ~(entries[i].present /\ entries[i].professionalId = p)
     /\ RowsOf(availabilities, p) = {})
    => /\ last.found
       /\ last.currentStatus = "AVAILABLE"
       /\ last.nextAvailableTime = None

\* C9: after the booking that was the sole reason a professional was BUSY is
\* cancelled, the next resolution yields AVAILABLE (here no manual override
\* exists: the professional has no availability record).
C9_CancelFreesProfessional ==
    LET p == last.professionalId IN
    (/\ last.op = "getAvailability"
     /\ last.afterCancel
     /\ RowsOf(availabilities, p) = {})
    => /\ isAvailable[p]
       /\ last.found
       /\ last.currentStatus = "AVAILABLE"

\* C10: creating a booking and cancelling it at once restores the
\* professional's availability, the isAvailable flag and the latest
\* availability status, to what it was before the booking.
C10_CreateCancelRoundTrip ==
    LET p == last.professionalId IN
    (/\ last.op = "deleteBooking"
     /\ last.success
     /\ last.justCreated)
    => /\ isAvailable[p] = last.before.isAvailable
       /\ LatestStatuses(availabilities, p) = last.before.latest

\* The availability rows a step wrote: the rows it added and the rows whose
\* status or timestamp it changed.
Written ==
    {i \in DOMAIN availabilities' :
        i \notin DOMAIN availabilities \/ availabilities'[i] # availabilities[i]}

\* The flows that change raw facts: the manual override, the booking flows
\* and the calendar-entry flows.
FactFlows ==
    {"createBooking", "updateBooking", "deleteBooking", "updateAvailability",
     "updateExternalCalendarEvent", "deleteExternalCalendarEvent"}

\* C11: the manual-override, booking and calendar-entry flows never write an
\* availability record with a status they chose themselves: a record written
\* in such a flow carries the status resolved from the facts, so it says BUSY
\* while a booking or calendar entry of the professional is active.
C11_RecordsOnlyFromResolver ==
    [][last'.op \in FactFlows =>
        \A i \in Written :
            LET p == availabilities'[i].professionalId IN
            (ActiveBooking(bookings', p, now) \/ ActiveEntry(entries', p, now))
                => availabilities'[i].status = "BUSY"]_vars

\* C12: availability history is append-only: a step never changes the status
\* or the timestamp of a stored availability record and never removes one.
C12_HistoryAppendOnly ==
    [][\A i \in DOMAIN availabilities :
            /\ i \in DOMAIN availabilities'
            /\ availabilities'[i] = availabilities[i]]_vars

\* C13: a new availability record is persisted only if its status differs
\* from the status of the professional's latest record, so the same trigger
\* twice in a row adds at most one record.
C13_SuppressUnchangedStatus ==
    [][\A i \in DOMAIN availabilities' :
            i \notin DOMAIN availabilities =>
                LatestStatuses(availabilities, availabilities'[i].professionalId)
                    # {availabilities'[i].status}]_vars

\* C14: no two availability records of one professional share the maximal
\* timestamp.
C14_UniqueLatestRecord ==
    \A p \in Professionals : Cardinality(LatestIds(availabilities, p)) <= 1

\* C15: a cancelled booking is terminal: no step changes the status of a
\* CANCELLED booking.
C15_CancelledIsTerminal ==
    [][\A i \in DOMAIN bookings :
            bookings[i].status = "CANCELLED" => bookings'[i].status = "CANCELLED"]_vars

\* The professional whose facts a step changed, as a set: empty when the
\* step changed no fact (a failed call, a query, a sync, a tick).
Mutated ==
    IF last'.op = "createBooking" /\ last'.message = Created
        THEN {last'.professionalId}
    ELSE IF last'.op = "updateBooking" /\ ~last'.raised
        THEN {bookings[last'.bookingId].professionalId}
    ELSE IF last'.op = "deleteBooking" /\ last'.success
        THEN {last'.professionalId}
    ELSE IF last'.op = "updateAvailability" /\ last'.successful
        THEN {last'.professionalId}
    ELSE IF last'.op = "updateExternalCalendarEvent" /\ last'.success
        THEN {entries[last'.eventId].professionalId}
    ELSE IF last'.op = "deleteExternalCalendarEvent" /\ last'.success
        THEN {last'.professionalId}
    ELSE {}

\* C16: every fact mutation for a professional (booking create, confirm,
\* cancel, reschedule; calendar entry update, delete; override set) leads to
\* a resolver run for that professional: when the call returns, the
\* professional's availability is the one resolved from the facts as they
\* now are.
C16_MutationTriggersResolver ==
    [][\A p \in Mutated :
        isAvailable'[p] = ~is_busy(bookings', entries', p, now)]_vars

\* C17: after deleteExternalCalendarEvent succeeds, the professional's
\* status is recomputed from the remaining facts: it is still BUSY when
\* another active booking or calendar entry contains the current instant.
C17_CalendarDeleteRecomputes ==
    LET p == last.professionalId IN
    (/\ last.op = "deleteExternalCalendarEvent"
     /\ last.success
     /\ ActiveBooking(bookings, p, now) \/ ActiveEntry(entries, p, now))
    => LatestStatuses(availabilities, p) = {"BUSY"}

\* The message of the response when the recompute raised.
RecomputeFailed == "error"

\* C18: when the availability recompute fails after createBooking has
\* written the booking row, the row is not rolled back: the table holds the
\* rows it held before and, after them, the new PENDING booking.
C18_FailedRecomputeKeepsBooking ==
    [][last'.op = "createBooking" =>
       \A p \in Professionals, w \in Windows :
        (createBooking(p, w[1], w[2], "recompute") /\ last'.message = RecomputeFailed)
        => /\ Len(bookings') = Len(bookings) + 1
           /\ bookings'[Len(bookings')] =
                [professionalId |-> p, scheduledTime |-> w[1], endTime |-> w[2],
                 status |-> "PENDING"]
           /\ \A i \in DOMAIN bookings : bookings'[i] = bookings[i]]_vars

\* C18 witness: the recompute of a createBooking call failed, and the booking
\* the call wrote is the last row of the table.
C18_Witness ==
    /\ last.op = "createBooking"
    /\ last.message = RecomputeFailed
    /\ bookings # <<>>
    /\ bookings[Len(bookings)].professionalId = last.professionalId
    /\ bookings[Len(bookings)].status = "PENDING"

\* C19: a failed recompute is not surfaced as a failure of createBooking:
\* whenever the call stored a booking, its response reports the booking as
\* created, with its id.
C19_FailureNotSurfaced ==
    [][(last'.op = "createBooking" /\ Len(bookings') > Len(bookings))
        => /\ last'.message = Created
           /\ last'.bookingId = Len(bookings')]_vars

\* C20: a window with start >= end is never persisted: every booking window
\* that createBooking or updateBooking writes, and every calendar entry
\* window with an end that updateExternalCalendarEvent writes, ends strictly
\* after it starts.
C20_InvalidWindowNeverPersisted ==
    [][/\ \A i \in DOMAIN bookings' :
            (\/ i \notin DOMAIN bookings
             \/ bookings'[i].scheduledTime # bookings[i].scheduledTime
             \/ bookings'[i].endTime # bookings[i].endTime)
            => /\ bookings'[i].endTime # None
               /\ bookings'[i].scheduledTime < bookings'[i].endTime
       /\ \A i \in DOMAIN entries :
            (/\ entries'[i].present
             /\ \/ entries'[i].startDateTime # entries[i].startDateTime
                \/ entries'[i].endDateTime # entries[i].endDateTime)
            => \/ entries'[i].endDateTime = None
               \/ entries'[i].startDateTime < entries'[i].endDateTime]_vars

ProfessionalNotFound == "Professional not found."

\* The failure a response reports.  syncAvailability has no response of its
\* own for a failure: an exception of the store call leaves it and the route
\* answers with that error.
Failure(r) ==
    CASE r.op = "createBooking" ->
            IF r.message = Created THEN "NONE" ELSE r.message
      [] r.op = "updateAvailability" ->
            IF r.successful THEN "NONE" ELSE ProfessionalNotFound
      [] r.op = "syncAvailability" ->
            IF r.raised THEN "store error" ELSE "NONE"

\* C21: resolving or writing availability for a professional id that does
\* not exist (createBooking, updateAvailability, syncAvailability) fails with
\* ProfessionalNotFound, and no booking and no availability record is ever
\* stored for such an id.
C21_UnknownProfessionalFails ==
    /\ (/\ last.op \in {"createBooking", "updateAvailability", "syncAvailability"}
        /\ last.professionalId \notin Professionals)
       => Failure(last) = ProfessionalNotFound
    /\ \A i \in DOMAIN bookings : bookings[i].professionalId \in Professionals
    /\ \A i \in DOMAIN availabilities :
            availabilities[i].professionalId \in Professionals

\* The least member of a non-empty set of instants.
Min(S) == CHOOSE x \in S : \A y \in S : x <= y

\* The ends of the facts of p whose window contains t, and the starts of the
\* facts of p that begin after t.
ActiveEnds(p, t) ==
    {bookings[i].endTime : i \in {j \in DOMAIN bookings :
        /\ bookings[j].professionalId = p
        /\ bookings[j].status \in {"PENDING", "CONFIRMED"}
        /\ contains(bookings[j].scheduledTime, bookings[j].endTime, t)}}
    \cup
    {entries[i].endDateTime : i \in {j \in DOMAIN entries :
        /\ entries[j].present
        /\ entries[j].professionalId = p
        /\ contains(entries[j].startDateTime, entries[j].endDateTime, t)}}
UpcomingStarts(p, t) ==
    {bookings[i].scheduledTime : i \in {j \in DOMAIN bookings :
        /\ bookings[j].professionalId = p
        /\ bookings[j].status \in {"PENDING", "CONFIRMED"}
        /\ bookings[j].scheduledTime > t}}
    \cup
    {entries[i].startDateTime : i \in {j \in DOMAIN entries :
        /\ entries[j].present
        /\ entries[j].professionalId = p
        /\ entries[j].startDateTime > t}}

\* C22: when the status reported for a professional is BUSY, the next change
\* reported with it is the least window end among the bookings and calendar
\* entries whose window contains the instant.
C22_NextChangeWhenBusy ==
    LET p == last.professionalId IN
    (/\ last.op = "getAvailability"
     /\ last.found
     /\ last.currentStatus = "BUSY"
     /\ ActiveEnds(p, now) # {})
    => last.nextAvailableTime = Min(ActiveEnds(p, now))

\* C23: when the status reported for a professional is not BUSY, the next
\* change reported with it is the earliest start among the professional's
\* upcoming bookings and calendar entries, and unset when there are none.
C23_NextChangeWhenFree ==
    LET p == last.professionalId IN
    (/\ last.op = "getAvailability"
     /\ last.found
     /\ last.currentStatus # "BUSY")
    => last.nextAvailableTime =
            IF UpcomingStarts(p, now) = {} THEN None
            ELSE Min(UpcomingStarts(p, now))

\* C26: when createBooking detects a conflict it answers "Time slot is not
\* available." and leaves the bookings, the availability records, the
\* calendar entries and the isAvailable flags as they were.
C26_ConflictCheckIsPure ==
    [][(last'.op = "createBooking" /\ last'.message = SlotUnavailable)
        => UNCHANGED <<bookings, entries, availabilities, isAvailable>>]_vars

\* C26 witness: a conflict was answered for a professional who was available
\* and whose availability history is not empty.
C26_Witness ==
    /\ last.op = "createBooking"
    /\ last.message = SlotUnavailable
    /\ isAvailable[last.professionalId]
    /\ RowsOf(availabilities, last.professionalId) # {}

\* C27: window containment is half-open: a booking or calendar entry whose
\* end equals the instant is not active, so when the recompute of
\* createBooking runs and no window of the professional contains the instant
\* (start <= instant < end), the professional is resolved available.
C27_HalfOpenContainment ==
    LET p == last.professionalId IN
    (/\ last.op = "createBooking"
     /\ last.message = Created
     /\ ~ActiveBooking(bookings, p, now)
     /\ ~ActiveEntry(entries, p, now))
    => isAvailable[p]

\* C28: the two stored representations of a professional's availability
\* agree: isAvailable is true exactly when the latest availability record,
\* if there is one, has status AVAILABLE.
C28_FlagAgreesWithLatestRecord ==
    \A p \in Professionals :
        RowsOf(availabilities, p) # {} =>
            (isAvailable[p] <=> LatestStatuses(availabilities, p) = {"AVAILABLE"})

\* C30: deleteBooking on an unknown booking id or on a booking that is
\* already CANCELLED answers success = False and changes no booking and no
\* availability record, so a second cancel leaves the store as the first
\* left it.
C30_RepeatedCancelChangesNothing ==
    [][last'.op = "deleteBooking" =>
       \A id \in BookingIds :
        (/\ deleteBooking(id)
         /\ \/ id \notin DOMAIN bookings
            \/ bookings[id].status = "CANCELLED")
        => /\ ~last'.success
           /\ UNCHANGED <<bookings, entries, availabilities, isAvailable>>]_vars

\* C30 witness: a booking that was already cancelled was cancelled again,
\* while an availability record inside its window says something other than
\* AVAILABLE.
C30_Witness ==
    /\ last.op = "deleteBooking"
    /\ ~last.success
    /\ last.bookingId \in DOMAIN bookings
    /\ bookings[last.bookingId].status = "CANCELLED"
    /\ \E i \in CancelledWindowRows(availabilities, bookings[last.bookingId]) :
            availabilities[i].status # "AVAILABLE"

\* C24: under every interleaving of concurrent calls for a professional,
\* availability records are persisted in timestamp order: a record written
\* by a step never carries an earlier timestamp than a record of the same
\* professional that was stored before the step.
C24_RecordsInTimestampOrder ==
    [][\A i \in Written :
        \A j \in RowsOf(availabilities, availabilities'[i].professionalId) :
            availabilities[j].timestamp <= availabilities'[i].timestamp]_vars

\* The rows of professional q in a table given as a function from ids to
\* rows, as the set of <<id, row>> pairs.
Of(table, q) ==
    {<<i, table[i]>> : i \in {j \in DOMAIN table : table[j].professionalId = q}}

\* C25: an operation invoked for one professional (createBooking,
\* deleteBooking, updateAvailability, syncAvailability,
\* deleteExternalCalendarEvent) leaves every other professional's bookings,
\* calendar entries, availability records and isAvailable flag unchanged.
C25_NoCrossProfessionalEffects ==
    [][last'.op \in {"createBooking", "deleteBooking", "updateAvailability",
                     "syncAvailability", "deleteExternalCalendarEvent"} =>
        \A q \in Professionals \ {last'.professionalId} :
            /\ isAvailable'[q] = isAvailable[q]
            /\ Of(bookings', q) = Of(bookings, q)
            /\ Of(availabilities', q) = Of(availabilities, q)
            /\ Of(entries', q) = Of(entries, q)]_vars

\* C25 witness: a booking of one professional was cancelled while another
\* professional has an availability record, not AVAILABLE, with a timestamp
\* inside the cancelled window.
C25_Witness ==
    /\ last.op = "deleteBooking"
    /\ last.success
    /\ \E i \in DOMAIN availabilities :
            /\ availabilities[i].professionalId \in Professionals
            /\ availabilities[i].professionalId # last.professionalId
            /\ availabilities[i].status # "AVAILABLE"
            /\ availabilities[i].timestamp >= bookings[last.bookingId].scheduledTime
            /\ availabilities[i].timestamp <= bookings[last.bookingId].endTime

\* C29: a professional who is unavailable because of a booking and is left
\* alone (no calendar entry, no further operation) is, once the time has
\* passed the booking's end, eventually available again.
C29_AvailableAgainAfterBookingEnd ==
    (/\ ~isAvailable["p1"]
     /\ bookings # <<>>
     /\ bookings[1].endTime < now
     /\ \A i \in EntryIds : ~entries[i].present)
    ~> isAvailable["p1"]

====
